---- MODULE Spec2Model ----
(***************************************************************************)
(* Model of TestTask2.py: a one-shot pipeline that acquires a repository,  *)
(* isolates one subdirectory (move to a temporary holder, delete the       *)
(* siblings, move back), writes version.json and archives the subtree.     *)
(*                                                                         *)
(* Strings are sequences of one-character strings, so that strip,          *)
(* endswith, urlparse, Path.stem, Path.suffix and sorted are computed the  *)
(* way the code computes them.  The file system is a function from         *)
(* absolute physical paths (sequences of names) to entries.                *)
(***************************************************************************)
EXTENDS Integers, Sequences, FiniteSets, TLC

VARIABLES
    argv,         \* sys.argv: <<script, arg1, ...>>
    pc,           \* position of main()
    fs,           \* the file system
    status,       \* exit status of the process, -1 while it runs
    diag,         \* TRUE once safe_exit printed an "Error: ..." line
    failed_step,  \* the pipeline step whose failure was detected, or "none"
    ops,          \* the file-system operations performed so far, in order
    todo,         \* cleanup loop: entries of iterdir() not yet visited
    undeleted,    \* cleanup loop: entries whose deletion raised (swallowed)
    files_list,   \* the list collected by the walk
    today,        \* the date string read from the host clock
    fs0,          \* history: the file system when main() started
    fs_acq,       \* history: the file system right after acquisition
    keep0,        \* history: the Keep Path subtree right before the move
    url1,         \* normalisation check: normalize_repo_url(u)
    url2          \* normalisation check: normalize_repo_url(normalize_repo_url(u))

vars == <<argv, pc, fs, status, diag, failed_step, ops, todo, undeleted,
          files_list, today, fs0, fs_acq, keep0, url1, url2>>

(***************************************************************************)
(* Bounds of the model.                                                    *)
(***************************************************************************)
\* longest raw reference enumerated exhaustively by the normalisation check
MaxLen == 5
\* how many sibling deletions the environment may make fail in one run
MaxDeleteFailures == 2

(***************************************************************************)
(* Characters and strings.                                                 *)
(***************************************************************************)
\* The characters the model uses, in code-point order (str comparison).
CharOrder ==
    <<"\t", "\n", " ", ".", "/", "0", "1", "2", ":", "H", "P", "S", "T", "_",
      "a", "b", "c", "d", "e", "g", "h", "i", "j", "k", "l", "m", "n", "o",
      "p", "r", "s", "t", "u", "v", "w", "x", "y">>

Ord(c) == CHOOSE i \in 1..Len(CharOrder) : CharOrder[i] = c

Whitespace == {" ", "\t", "\n"}

Lower(c) ==
    CASE c = "H" -> "h" [] c = "T" -> "t" [] c = "P" -> "p" [] c = "S" -> "s"
      [] OTHER -> c

LowerStr(s) == [i \in 1..Len(s) |-> Lower(s[i])]

Letters ==
    {"H", "P", "S", "T", "a", "b", "c", "d", "e", "g", "h", "i", "j", "k", "l",
     "m", "n", "o", "p", "r", "s", "t", "u", "v", "w", "x", "y"}

IsAlpha(c) == c \in Letters

\* urllib.parse.scheme_chars: letters, digits, "+", "-", "." (of them, the
\* characters that CharOrder lists)
IsSchemeChar(c) == IsAlpha(c) \/ c \in {"0", "1", "2", "."}

EndsWith(s, suf) ==
    /\ Len(s) >= Len(suf)
    /\ SubSeq(s, Len(s) - Len(suf) + 1, Len(s)) = suf

StartsWith(s, pre) == Len(s) >= Len(pre) /\ SubSeq(s, 1, Len(pre)) = pre

Drop(s, n) == SubSeq(s, n + 1, Len(s))

\* str.lstrip() / str.rstrip() / str.strip()
RECURSIVE LStrip(_)
LStrip(s) == IF s # <<>> /\ s[1] \in Whitespace THEN LStrip(Tail(s)) ELSE s

RECURSIVE RStrip(_)
RStrip(s) ==
    IF s # <<>> /\ s[Len(s)] \in Whitespace
    THEN RStrip(SubSeq(s, 1, Len(s) - 1)) ELSE s

Strip(s) == RStrip(LStrip(s))

\* str.find(c): the first index of c in s, 0 when absent (1-based here)
Find(s, cs) ==
    IF \E i \in 1..Len(s) : s[i] \in cs
    THEN CHOOSE i \in 1..Len(s) : s[i] \in cs /\ \A j \in 1..(i - 1) : s[j] \notin cs
    ELSE 0

\* str.rfind(c)
RFind(s, c) ==
    IF \E i \in 1..Len(s) : s[i] = c
    THEN CHOOSE i \in 1..Len(s) : s[i] = c /\ \A j \in (i + 1)..Len(s) : s[j] # c
    ELSE 0

\* str < str: lexicographic by code point
RECURSIVE StrLess(_, _)
StrLess(a, b) ==
    IF b = <<>> THEN FALSE
    ELSE IF a = <<>> THEN TRUE
    ELSE IF a[1] = b[1] THEN StrLess(Tail(a), Tail(b))
    ELSE Ord(a[1]) < Ord(b[1])

DotGit == <<".", "g", "i", "t">>

(***************************************************************************)
(* normalize_repo_url                                                      *)
(***************************************************************************)
\* a plausible slip: the suffix is appended without looking at the end
normalize_always_append(url) == Strip(url) \o DotGit

normalize_repo_url(url) ==
    LET u == Strip(url)
    IN  IF ~EndsWith(u, DotGit) THEN u \o DotGit ELSE u

(***************************************************************************)
(* urllib.parse.urlparse, as far as is_valid_url reads it                  *)
(***************************************************************************)
\* urlsplit drops leading C0-control/space characters and every tab/newline
RemoveUnsafe(s) == SelectSeq(s, LAMBDA c : c \notin {"\t", "\n"})

UrlClean(url) == RemoveUnsafe(LStrip(url))

HasScheme(u) ==
    LET i == Find(u, {":"})
    IN  /\ i > 1
        /\ IsAlpha(u[1])
        /\ \A j \in 1..(i - 1) : IsSchemeChar(u[j])

UrlScheme(url) ==
    LET u == UrlClean(url)
    IN  IF HasScheme(u) THEN LowerStr(SubSeq(u, 1, Find(u, {":"}) - 1)) ELSE <<>>

UrlNetloc(url) ==
    LET u    == UrlClean(url)
        rest == IF HasScheme(u) THEN Drop(u, Find(u, {":"})) ELSE u
        body == Drop(rest, 2)
        d    == Find(body, {"/", "?", "#"})
    IN  IF StartsWith(rest, <<"/", "/">>)
        THEN (IF d = 0 THEN body ELSE SubSeq(body, 1, d - 1))
        ELSE <<>>

Http  == <<"h", "t", "t", "p">>
Https == <<"h", "t", "t", "p", "s">>

is_valid_url(url) == UrlScheme(url) \in {Http, Https} /\ UrlNetloc(url) # <<>>

(***************************************************************************)
(* pathlib.Path on strings                                                 *)
(***************************************************************************)
DotDot == <<".", ".">>

RECURSIVE Split(_)
Split(s) ==
    LET i == Find(s, {"/"})
    IN  IF i = 0 THEN <<s>> ELSE <<SubSeq(s, 1, i - 1)>> \o Split(Drop(s, i))

\* Path(s).parts without the anchor: empty and "." components are dropped,
\* ".." components are kept
Components(s) == SelectSeq(Split(s), LAMBDA c : c # <<>> /\ c # <<".">>)

IsAbsolute(s) == s # <<>> /\ s[1] = "/"

\* Path.name of a sequence of components
NameOf(parts) == IF parts = <<>> THEN <<>> ELSE parts[Len(parts)]

\* Path.parent of a sequence of components
ParentOf(parts) == IF parts = <<>> THEN <<>> ELSE SubSeq(parts, 1, Len(parts) - 1)

HasSuffix(name) == LET i == RFind(name, ".") IN 1 < i /\ i < Len(name)

\* Path.suffix and Path.stem of a name
Suffix(name) == IF HasSuffix(name) THEN Drop(name, RFind(name, ".") - 1) ELSE <<>>

Stem(name) == IF HasSuffix(name) THEN SubSeq(name, 1, RFind(name, ".") - 1) ELSE name

\* str(relative path): the components joined by "/"
RECURSIVE JoinPath(_)
JoinPath(parts) ==
    IF parts = <<>> THEN <<>>
    ELSE IF Len(parts) = 1 THEN parts[1]
    ELSE parts[1] \o <<"/">> \o JoinPath(Tail(parts))

(***************************************************************************)
(* The file system                                                         *)
(***************************************************************************)
Dir  == [kind |-> "dir", data |-> <<>>]
Blob == [kind |-> "file", data |-> <<>>]

\* the result of resolving a path that runs through a missing entry or a file
NoPath == << <<>> >>

Under(p, root) == Len(p) >= Len(root) /\ SubSeq(p, 1, Len(root)) = root

IsDirAt(f, p) == p \in DOMAIN f /\ f[p].kind = "dir"

\* The entry a sequence of components names, as the OS resolves it: every
\* component but the last must be a directory, ".." steps to the parent.
RECURSIVE Phys(_, _)
Phys(f, parts) ==
    IF parts = <<>> THEN <<>>
    ELSE LET q == Phys(f, ParentOf(parts))
             c == NameOf(parts)
         IN  IF q = NoPath \/ ~IsDirAt(f, q) THEN NoPath
             ELSE IF c = DotDot THEN ParentOf(q)
             ELSE q \o <<c>>

\* Path.exists() and Path.is_dir()
Exists(f, parts) == Phys(f, parts) \in DOMAIN f

IsDir(f, parts) == IsDirAt(f, Phys(f, parts))

\* the subtree below root, as a function from relative paths to entries
Sub(f, root) ==
    [rel \in {Drop(p, Len(root)) : p \in {q \in DOMAIN f : Under(q, root) /\ q # root}}
        |-> f[root \o rel]]

\* f without the entry p and everything below it, except the entries in kept
RemoveTree(f, p, kept) ==
    [q \in {x \in DOMAIN f : ~Under(x, p) \/ x \in kept} |-> f[q]]

\* os.rename of the directory s to the free place d
Rename(f, s, d) ==
    LET stay  == {p \in DOMAIN f : ~Under(p, s)}
        moved == {d \o Drop(p, Len(s)) : p \in {q \in DOMAIN f : Under(q, s)}}
    IN  [p \in stay \cup moved |->
            IF p \in moved THEN f[s \o Drop(p, Len(d))] ELSE f[p]]

\* shutil.move(src, dst) of a directory: into dst when dst is a directory,
\* else onto dst.  The copy fallback taken when os.rename raises ends in an
\* exception in every case the pipeline reaches (destination inside the
\* source, or destination an existing file).
ShMove(f, src, dst) ==
    LET ps   == Phys(f, src)
        into == IsDir(f, dst)
        real == IF into THEN dst \o <<NameOf(src)>> ELSE dst
        pr   == Phys(f, real)
    IN  IF into /\ Phys(f, dst) = ps THEN [ok |-> TRUE, fs |-> f]
        ELSE IF into /\ pr \in DOMAIN f THEN [ok |-> FALSE, fs |-> f]
        ELSE IF ps \in DOMAIN f /\ pr # NoPath /\ pr \notin DOMAIN f /\ ~Under(pr, ps)
             THEN [ok |-> TRUE, fs |-> Rename(f, ps, pr)]
        ELSE [ok |-> FALSE, fs |-> f]

\* Path.mkdir(parents=True, exist_ok=True)
RECURSIVE MkdirP(_, _)
MkdirP(f, parts) ==
    LET p == Phys(f, parts)
    IN  IF p \in DOMAIN f THEN [ok |-> IsDirAt(f, p), fs |-> f]
        ELSE IF p # NoPath
             THEN [ok |-> TRUE, fs |-> [q \in DOMAIN f \cup {p} |-> IF q = p THEN Dir ELSE f[q]]]
        ELSE IF parts = <<>> THEN [ok |-> FALSE, fs |-> f]
        ELSE LET up == MkdirP(f, ParentOf(parts))
             IN  IF ~up.ok \/ Phys(up.fs, ParentOf(parts)) = NoPath
                 THEN [ok |-> FALSE, fs |-> up.fs]
                 ELSE MkdirP(up.fs, parts)

(***************************************************************************)
(* Names, inputs and initial layouts                                       *)
(***************************************************************************)
KeepTempPrefix == <<".", "k", "e", "e", "p", "_", "t", "e", "m", "p", "_">>
VersionJson    == <<"v", "e", "r", "s", "i", "o", "n", ".", "j", "s", "o", "n">>
HelloWorld     == <<"h", "e", "l", "l", "o", " ", "w", "o", "r", "l", "d">>
DotZip         == <<".", "z", "i", "p">>
Exts           == {<<".", "p", "y">>, <<".", "j", "s">>, <<".", "s", "h">>}

\* Path.cwd(): the directory /w, which also holds the directory o
Cwd == << <<"w">> >>

NSrc  == <<"s", "r", "c">>
NSub  == <<"s", "u", "b">>
NDoc  == <<"d", "o", "c">>
NLib  == <<"l", "i", "b">>
NCore == <<"c", "o", "r", "e">>
NAPy  == <<"a", ".", "p", "y">>
NBJs  == <<"b", ".", "j", "s">>
NCSh  == <<"c", ".", "s", "h">>
NUPy  == <<"u", ".", "p", "y">>
NOPy  == <<"o", ".", "p", "y">>
NSubPy == <<"s", "u", "b", ".", "p", "y">>
NDotSh == <<".", "s", "h">>
NMd   == <<"m", ".", "m", "d">>
NTxt  == <<"x", ".", "t", "x", "t">>
NHead == <<"H">>
NTempSrc == KeepTempPrefix \o NSrc

\* a tree: the directories and the files below its root
TreeOf(dirs, files) ==
    [p \in dirs \cup files |-> IF p \in files THEN Blob ELSE Dir]

\* the repository of the spec's scenario (src/a.py, src/sub/b.js, a README
\* and docs), with src/sub.py beside the directory src/sub
RepoA ==
    TreeOf({<<DotGit>>, <<NSrc>>, <<NSrc, NSub>>, <<NDoc>>},
           {<<DotGit, NHead>>, <<NSrc, NAPy>>, <<NSrc, NSub, NBJs>>,
            <<NSrc, NSubPy>>, <<NMd>>, <<NDoc, NTxt>>})

\* a repository with a nested directory that holds the version.json of an
\* earlier run and a dot-file named .sh
RepoB ==
    TreeOf({<<DotGit>>, <<NLib>>, <<NLib, NCore>>},
           {<<DotGit, NHead>>, <<NLib, NCore, NCSh>>, <<NLib, NCore, VersionJson>>,
            <<NLib, NCore, NDotSh>>, <<NLib, NUPy>>})

\* checkouts that hold an entry with the temporary holder's name
RepoHolderDir ==
    TreeOf({<<DotGit>>, <<NSrc>>, <<NTempSrc>>},
           {<<NSrc, NAPy>>, <<NTempSrc, NOPy>>})

RepoHolderFile ==
    TreeOf({<<DotGit>>, <<NSrc>>}, {<<NSrc, NAPy>>, <<NTempSrc>>})

\* a checkout whose src holds a directory named version.json
RepoJsonDir ==
    TreeOf({<<DotGit>>, <<NSrc>>, <<NSrc, VersionJson>>}, {<<NSrc, NBJs>>})

\* a directory that is no checkout
PlainDir == TreeOf({}, {<<NMd>>})

\* what a successful clone can put at the destination
RepoContents == {RepoA, RepoB}

Checkouts == {RepoA, RepoB, RepoHolderDir, RepoHolderFile, RepoJsonDir}

\* the file system with the tree t at the absolute place at
Graft(f, at, t) ==
    [p \in DOMAIN f \cup {at} \cup {at \o rel : rel \in DOMAIN t} |->
        IF p = at THEN Dir
        ELSE IF Under(p, at) THEN t[Drop(p, Len(at))]
        ELSE f[p]]

BaseFs ==
    TreeOf({<<>>, Cwd, Cwd \o << <<"o">> >>}, {Cwd \o << <<"o">>, NOPy >>})

\* the place /w/r, where the references of the model put the checkout
Place == Cwd \o << <<"r">> >>

Layouts ==
    {BaseFs}
    \cup {[p \in DOMAIN BaseFs \cup {Place} |-> IF p = Place THEN Blob ELSE BaseFs[p]]}
    \cup {Graft(BaseFs, Place, t) : t \in Checkouts \cup {PlainDir}}

HttpsHR == Https \o <<":", "/", "/", "h", "/", "r">>

\* raw references
RawUrls ==
    { HttpsHR,
      <<" ">> \o HttpsHR \o DotGit \o <<" ">>,
      <<"H", "T", "T", "P", ":", "/", "/", "h", "/", "r">>,
      <<"f", "t", "p", ":", "/", "/", "h", "/", "r">>,
      <<"h", "/", "r">>,
      Https \o <<":", "/", "/", "/", "r">>,
      Https \o <<":", "/", "/">>,
      <<>> }

\* the references a clone can succeed on (the remote has the repository)
Remote == {HttpsHR \o DotGit,
           <<"H", "T", "T", "P", ":", "/", "/", "h", "/", "r">> \o DotGit}

\* keep-path arguments: src, lib/core, ".", "", "..", ../o, /w/o,
\* src/../doc, m.md (a file), and sub (missing at the top level)
KeepArgs ==
    { NSrc,
      NLib \o <<"/">> \o NCore,
      <<".">>,
      <<>>,
      DotDot,
      DotDot \o <<"/", "o">>,
      <<"/", "w", "/", "o">>,
      NSrc \o <<"/">> \o DotDot \o <<"/">> \o NDoc,
      NMd,
      NSub }

Versions == {"1.2.3", "v2"}

Dates == {<<"2", "0", "2", "0", "0", "1", "0", "2">>,
          <<"2", "0", "2", "1", "1", "2", "1", "0">>}

(***************************************************************************)
(* The locals of main(), as functions of sys.argv                          *)
(***************************************************************************)
repo_url == normalize_repo_url(argv[2])

keep_path == argv[3]

version == argv[4]

repo_name == Stem(NameOf(Components(repo_url)))

target_dir == Cwd \o Components(repo_name)

\* target_dir / keep_path: an absolute keep_path replaces target_dir
keep_full ==
    IF IsAbsolute(keep_path) THEN Components(keep_path)
    ELSE target_dir \o Components(keep_path)

temp_keep == target_dir \o <<KeepTempPrefix \o NameOf(keep_full)>>

final_keep == keep_full

manifest_path == final_keep \o <<VersionJson>>

\* make_archive appends ".zip" to the base name archive_path
archive_path(date) == ParentOf(target_dir) \o <<NameOf(final_keep) \o date \o DotZip>>

(***************************************************************************)
(* Leaving the process                                                     *)
(***************************************************************************)
\* safe_exit(msg, code): print "Error: msg", exit with code
safe_exit(code, step) ==
    /\ status' = code
    /\ diag' = TRUE
    /\ failed_step' = step
    /\ pc' = "exit"

\* an exception no except clause of main() catches: the interpreter prints
\* a traceback and exits with status 1
Uncaught(step) ==
    /\ status' = 1
    /\ diag' = FALSE
    /\ failed_step' = step
    /\ pc' = "exit"

Goto(next) ==
    /\ pc' = next
    /\ UNCHANGED <<status, diag, failed_step>>

(***************************************************************************)
(* main()                                                                  *)
(***************************************************************************)
Init ==
    /\ \/ \E u \in RawUrls, k \in KeepArgs, v \in Versions : argv = <<"script", u, k, v>>
       \/ argv = <<"script", HttpsHR, NSrc>>
       \/ argv = <<"script", HttpsHR, NSrc, "v2", "extra">>
    /\ fs \in Layouts
    /\ fs0 = fs
    /\ fs_acq = fs
    /\ keep0 = <<>>
    /\ pc = "args"
    /\ status = -1
    /\ diag = FALSE
    /\ failed_step = "none"
    /\ ops = <<>>
    /\ todo = {}
    /\ undeleted = {}
    /\ files_list = <<>>
    /\ today = <<>>
    /\ url1 = <<>>
    /\ url2 = <<>>

hist == <<fs0, url1, url2, argv>>

\* if len(sys.argv) != 4: safe_exit(..., 1)
CheckArgs ==
    /\ pc = "args"
    /\ IF Len(argv) # 4 THEN safe_exit(1, "args") ELSE Goto("validate")
    /\ UNCHANGED <<fs, ops, todo, undeleted, files_list, today, fs_acq, keep0, hist>>

\* if not is_valid_url(repo_url): safe_exit(..., 2)
Validate ==
    /\ pc = "validate"
    /\ IF ~is_valid_url(repo_url) THEN safe_exit(2, "url") ELSE Goto("acquire")
    /\ UNCHANGED <<fs, ops, todo, undeleted, files_list, today, fs_acq, keep0, hist>>

\* a plausible slip: whatever is at target_dir is taken for a checkout
AcquireExisting_any_entry ==
    /\ pc = "acquire"
    /\ Exists(fs, target_dir)
    /\ Goto("resolve")
    /\ UNCHANGED <<fs, ops, todo, undeleted, files_list, today, fs_acq, keep0, hist>>

\* target_dir exists: it must hold .git, and is then used as it is
AcquireExisting ==
    /\ pc = "acquire"
    /\ Exists(fs, target_dir)
    /\ IF ~Exists(fs, target_dir \o <<DotGit>>)
       THEN safe_exit(3, "exists")
       ELSE Goto("resolve")
    /\ UNCHANGED <<fs, ops, todo, undeleted, files_list, today, fs_acq, keep0, hist>>

\* git clone succeeds and leaves a checkout at target_dir
CloneOk ==
    /\ pc = "acquire"
    /\ ~Exists(fs, target_dir)
    /\ repo_url \in Remote
    /\ Phys(fs, target_dir) # NoPath
    /\ \E t \in RepoContents : fs' = Graft(fs, Phys(fs, target_dir), t)
    /\ fs_acq' = fs'
    /\ ops' = Append(ops, "clone")
    /\ Goto("resolve")
    /\ UNCHANGED <<todo, undeleted, files_list, today, keep0, hist>>

\* git clone exits non-zero: CalledProcessError, safe_exit(..., 4)
CloneFails ==
    /\ pc = "acquire"
    /\ ~Exists(fs, target_dir)
    /\ ops' = Append(ops, "clone")
    /\ safe_exit(4, "clone")
    /\ UNCHANGED <<fs, todo, undeleted, files_list, today, fs_acq, keep0, hist>>

\* subprocess.run cannot start git (no such executable): FileNotFoundError,
\* which except CalledProcessError does not catch
CloneCannotStart ==
    /\ pc = "acquire"
    /\ ~Exists(fs, target_dir)
    /\ ops' = Append(ops, "clone")
    /\ Uncaught("clone")
    /\ UNCHANGED <<fs, todo, undeleted, files_list, today, fs_acq, keep0, hist>>

\* a plausible slip: the is_dir() half of the test is left out
Resolve_exists_only ==
    /\ pc = "resolve"
    /\ IF ~Exists(fs, keep_full)
       THEN safe_exit(5, "resolve")
       ELSE Goto("move")
    /\ UNCHANGED <<fs, ops, todo, undeleted, files_list, today, fs_acq, keep0, hist>>

\* keep_full must exist and be a directory, else safe_exit(..., 5)
Resolve ==
    /\ pc = "resolve"
    /\ IF ~Exists(fs, keep_full) \/ ~IsDir(fs, keep_full)
       THEN safe_exit(5, "resolve")
       ELSE Goto("move")
    /\ UNCHANGED <<fs, ops, todo, undeleted, files_list, today, fs_acq, keep0, hist>>

\* shutil.move(keep_full, temp_keep); any exception: safe_exit(..., 6)
MoveToTemp ==
    /\ pc = "move"
    /\ keep0' = Sub(fs, Phys(fs, keep_full))
    /\ ops' = Append(ops, "move")
    /\ LET m == ShMove(fs, keep_full, temp_keep)
       IN  IF m.ok THEN fs' = m.fs /\ Goto("iterdir")
           ELSE fs' = fs /\ safe_exit(6, "move")
    /\ UNCHANGED <<todo, undeleted, files_list, today, fs_acq, hist>>

\* the move raises for a reason of the environment (an I/O error)
MoveToTempFails ==
    /\ pc = "move"
    /\ keep0' = Sub(fs, Phys(fs, keep_full))
    /\ ops' = Append(ops, "move")
    /\ safe_exit(6, "move")
    /\ UNCHANGED <<fs, todo, undeleted, files_list, today, fs_acq, hist>>

\* for item in target_dir.iterdir(): the listing is taken here
Iterdir ==
    /\ pc = "iterdir"
    /\ todo' = {NameOf(p) : p \in {q \in DOMAIN fs :
                    q # <<>> /\ ParentOf(q) = Phys(fs, target_dir)}}
    /\ Goto("cleanup")
    /\ UNCHANGED <<fs, ops, undeleted, files_list, today, fs_acq, keep0, hist>>

\* the listing raises (the directory cannot be read); the for statement is
\* outside every try block
IterdirFails ==
    /\ pc = "iterdir"
    /\ Uncaught("enumerate")
    /\ UNCHANGED <<fs, ops, todo, undeleted, files_list, today, fs_acq, keep0, hist>>

\* if item.name in {'.git', temp_keep.name}: continue
CleanupSkip ==
    /\ pc = "cleanup"
    /\ \E item \in todo :
          /\ item \in {DotGit, NameOf(temp_keep)}
          /\ todo' = todo \ {item}
    /\ Goto("cleanup")
    /\ UNCHANGED <<fs, ops, undeleted, files_list, today, fs_acq, keep0, hist>>

\* shutil.rmtree(item) or item.unlink() succeeds
CleanupDelete ==
    /\ pc = "cleanup"
    /\ \E item \in todo :
          /\ item \notin {DotGit, NameOf(temp_keep)}
          /\ todo' = todo \ {item}
          /\ fs' = RemoveTree(fs, Phys(fs, target_dir) \o <<item>>, {})
    /\ ops' = Append(ops, "delete")
    /\ Goto("cleanup")
    /\ UNCHANGED <<undeleted, files_list, today, fs_acq, keep0, hist>>

\* the deletion raises: except Exception: continue.  rmtree may have removed
\* part of the tree before it raised; what is left is closed under parents.
CleanupDeleteFails ==
    /\ pc = "cleanup"
    /\ Cardinality(undeleted) < MaxDeleteFailures
    /\ \E item \in todo :
          /\ item \notin {DotGit, NameOf(temp_keep)}
          /\ todo' = todo \ {item}
          /\ undeleted' = undeleted \cup {item}
          /\ LET at == Phys(fs, target_dir) \o <<item>>
             IN  \E kept \in SUBSET {q \in DOMAIN fs : Under(q, at)} :
                    /\ at \in kept
                    /\ \A q \in kept : q = at \/ ParentOf(q) \in kept
                    /\ fs' = RemoveTree(fs, at, kept)
    /\ ops' = Append(ops, "delete")
    /\ Goto("cleanup")
    /\ UNCHANGED <<files_list, today, fs_acq, keep0, hist>>

\* the loop is over
CleanupDone ==
    /\ pc = "cleanup"
    /\ todo = {}
    /\ Goto("mkdir")
    /\ UNCHANGED <<fs, ops, todo, undeleted, files_list, today, fs_acq, keep0, hist>>

\* final_keep.parent.mkdir(parents=True, exist_ok=True), outside every try
MkdirParents ==
    /\ pc = "mkdir"
    /\ ops' = Append(ops, "mkdir")
    /\ LET m == MkdirP(fs, ParentOf(final_keep))
       IN  IF m.ok THEN fs' = m.fs /\ Goto("restore")
           ELSE fs' = m.fs /\ Uncaught("mkdir")
    /\ UNCHANGED <<todo, undeleted, files_list, today, fs_acq, keep0, hist>>

\* mkdir raises for a reason of the environment (OSError)
MkdirParentsFails ==
    /\ pc = "mkdir"
    /\ ops' = Append(ops, "mkdir")
    /\ Uncaught("mkdir")
    /\ UNCHANGED <<fs, todo, undeleted, files_list, today, fs_acq, keep0, hist>>

\* shutil.move(temp_keep, final_keep); any exception: safe_exit(..., 7)
Restore ==
    /\ pc = "restore"
    /\ ops' = Append(ops, "restore")
    /\ LET m == ShMove(fs, temp_keep, final_keep)
       IN  IF m.ok THEN fs' = m.fs /\ Goto("walk")
           ELSE fs' = fs /\ safe_exit(7, "restore")
    /\ UNCHANGED <<todo, undeleted, files_list, today, fs_acq, keep0, hist>>

RestoreFails ==
    /\ pc = "restore"
    /\ ops' = Append(ops, "restore")
    /\ safe_exit(7, "restore")
    /\ UNCHANGED <<fs, todo, undeleted, files_list, today, fs_acq, keep0, hist>>

\* the files below root that the walk keeps: Path(f).suffix in exts, each as
\* str(path relative to root)
Collected(f, root) ==
    {JoinPath(Drop(p, Len(root))) :
        p \in {q \in DOMAIN f : /\ Under(q, root) /\ q # root
                                 /\ f[q].kind = "file"
                                 /\ Suffix(NameOf(q)) \in Exts}}

\* the orders in which a walk can meet the members of S
Orders(S) ==
    {s \in [1..Cardinality(S) -> S] : \A i, j \in 1..Cardinality(S) : i # j => s[i] # s[j]}

\* for root, _, files in os.walk(final_keep): ... files_list.append(str(rel))
Walk ==
    /\ pc = "walk"
    /\ files_list' \in Orders(Collected(fs, Phys(fs, final_keep)))
    /\ ops' = Append(ops, "walk")
    /\ Goto("write")
    /\ UNCHANGED <<fs, todo, undeleted, today, fs_acq, keep0, hist>>

\* a plausible slip: the list is embedded in the order of the walk
version_data_unsorted == <<HelloWorld, version, files_list>>

\* version_data = {"name": ..., "version": version, "files": sorted(files_list)}
version_data == <<HelloWorld, version, SortSeq(files_list, StrLess)>>

\* open(final_keep / 'version.json', 'w') and json.dump; any exception:
\* safe_exit(..., 8).  open raises when the name is taken by a directory.
WriteManifest ==
    /\ pc = "write"
    /\ ops' = Append(ops, "write")
    /\ LET p == Phys(fs, manifest_path)
       IN  IF p = NoPath \/ IsDirAt(fs, p)
           THEN fs' = fs /\ safe_exit(8, "write")
           ELSE /\ fs' = [q \in DOMAIN fs \cup {p} |->
                            IF q = p THEN [kind |-> "file", data |-> version_data]
                            ELSE fs[q]]
                /\ Goto("archive")
    /\ UNCHANGED <<todo, undeleted, files_list, today, fs_acq, keep0, hist>>

\* a plausible slip: the exception of the write is swallowed
WriteManifestFails_swallowed ==
    /\ pc = "write"
    /\ ops' = Append(ops, "write")
    /\ Goto("archive")
    /\ UNCHANGED <<fs, todo, undeleted, files_list, today, fs_acq, keep0, hist>>

\* the write raises for a reason of the environment
WriteManifestFails ==
    /\ pc = "write"
    /\ ops' = Append(ops, "write")
    /\ safe_exit(8, "write")
    /\ UNCHANGED <<fs, todo, undeleted, files_list, today, fs_acq, keep0, hist>>

\* what make_archive(..., root_dir=final_keep.parent, base_dir=final_keep.name)
\* stores: the tree below final_keep, under its name
Zipped(f) ==
    LET root == Phys(f, final_keep)
        top  == <<NameOf(final_keep)>>
    IN  [q \in {top \o Drop(p, Len(root)) : p \in {x \in DOMAIN f : Under(x, root)}}
            |-> f[root \o Drop(q, 1)]]

\* shutil.make_archive(str(archive_path), 'zip', ...); any exception:
\* safe_exit(..., 9).  Returning from main() ends the process with status 0.
MakeArchive ==
    /\ pc = "archive"
    /\ today' \in Dates
    /\ ops' = Append(ops, "archive")
    /\ LET p == Phys(fs, archive_path(today'))
       IN  IF p = NoPath \/ IsDirAt(fs, p)
           THEN /\ fs' = fs
                /\ safe_exit(9, "archive")
           ELSE /\ fs' = [q \in DOMAIN fs \cup {p} |->
                            IF q = p THEN [kind |-> "file", data |-> <<Zipped(fs)>>]
                            ELSE fs[q]]
                /\ status' = 0
                /\ pc' = "done"
                /\ UNCHANGED <<diag, failed_step>>
    /\ UNCHANGED <<todo, undeleted, files_list, fs_acq, keep0, hist>>

\* make_archive raises for a reason of the environment
MakeArchiveFails ==
    /\ pc = "archive"
    /\ today' \in Dates
    /\ ops' = Append(ops, "archive")
    /\ safe_exit(9, "archive")
    /\ UNCHANGED <<fs, todo, undeleted, files_list, fs_acq, keep0, hist>>

Next ==
    \/ CheckArgs
    \/ Validate
    \/ AcquireExisting
    \/ CloneOk
    \/ CloneFails
    \/ CloneCannotStart
    \/ Resolve
    \/ MoveToTemp
    \/ MoveToTempFails
    \/ Iterdir
    \/ IterdirFails
    \/ CleanupSkip
    \/ CleanupDelete
    \/ CleanupDeleteFails
    \/ CleanupDone
    \/ MkdirParents
    \/ MkdirParentsFails
    \/ Restore
    \/ RestoreFails
    \/ Walk
    \/ WriteManifest
    \/ WriteManifestFails
    \/ MakeArchive
    \/ MakeArchiveFails

Spec == Init /\ [][Next]_vars

(***************************************************************************)
(* normalize_repo_url on every short string                                *)
(***************************************************************************)
NormAlphabet == {" ", ".", "g", "i", "t"}

NormInputs == UNION {[1..n -> NormAlphabet] : n \in 0..MaxLen}

InitNorm ==
    /\ \E u \in NormInputs : argv = <<"script", u>>
    /\ fs = BaseFs
    /\ fs0 = fs
    /\ fs_acq = fs
    /\ keep0 = <<>>
    /\ pc = "norm0"
    /\ status = -1
    /\ diag = FALSE
    /\ failed_step = "none"
    /\ ops = <<>>
    /\ todo = {}
    /\ undeleted = {}
    /\ files_list = <<>>
    /\ today = <<>>
    /\ url1 = <<>>
    /\ url2 = <<>>

\* repo_url = normalize_repo_url(sys.argv[1])
NormOnce ==
    /\ pc = "norm0"
    /\ url1' = normalize_repo_url(argv[2])
    /\ pc' = "norm1"
    /\ UNCHANGED <<argv, fs, status, diag, failed_step, ops, todo, undeleted,
                   files_list, today, fs0, fs_acq, keep0, url2>>

\* the function applied to its own result
NormTwice ==
    /\ pc = "norm1"
    /\ url2' = normalize_repo_url(url1)
    /\ pc' = "norm2"
    /\ UNCHANGED <<argv, fs, status, diag, failed_step, ops, todo, undeleted,
                   files_list, today, fs0, fs_acq, keep0, url1>>

NextNorm == NormOnce \/ NormTwice

SpecNorm == InitNorm /\ [][NextNorm]_vars

(***************************************************************************)
(* Vocabulary of the properties                                            *)
(***************************************************************************)
InOps(op) == \E i \in 1..Len(ops) : ops[i] = op

\* all three arguments were given and the reference passed validation
Admitted == Len(argv) = 4 /\ is_valid_url(repo_url)

\* the run got past acquisition
Acquired ==
    \/ pc \in {"resolve", "move", "iterdir", "cleanup", "mkdir", "restore",
                "walk", "write", "archive", "done"}
    \/ pc = "exit" /\ failed_step \notin {"args", "url", "exists", "clone"}

\* the run got past the keep-path check of line 53
KeepAccepted ==
    \/ pc \in {"move", "iterdir", "cleanup", "mkdir", "restore", "walk", "write",
                "archive", "done"}
    \/ pc = "exit" /\ failed_step \in {"move", "enumerate", "mkdir", "restore",
                                        "write", "archive"}

\* the manifest was written by this run
ManifestWritten ==
    \/ pc \in {"archive", "done"}
    \/ pc = "exit" /\ failed_step = "archive"

StrictlyInside(p, root) == p # NoPath /\ root # NoPath /\ Under(p, root) /\ p # root

\* the exit status the interface reserves for a failure of each step
ReservedFor(step) ==
    CASE step = "args"      -> {1}
      [] step = "url"       -> {2}
      [] step = "exists"    -> {3}
      [] step = "clone"     -> {4}
      [] step = "resolve"   -> {5}
      [] step = "move"      -> {6}
      [] step = "enumerate" -> {6, 7}
      [] step = "mkdir"     -> {7}
      [] step = "restore"   -> {7}
      [] step = "write"     -> {8}
      [] step = "archive"   -> {9}
      [] OTHER              -> {}

\* the reference as given has a scheme other than http/https or no authority
RawRejectable(u) == UrlScheme(u) \notin {Http, Https} \/ UrlNetloc(u) = <<>>

\* a file name carries one of the recognised extensions
HasRecognisedExt(name) == \E e \in Exts : EndsWith(name, e) /\ Len(name) > Len(e)

\* the relative paths of the files below root with a recognised extension
SourceFiles(f, root) ==
    {JoinPath(Drop(p, Len(root))) :
        p \in {q \in DOMAIN f : /\ StrictlyInside(q, root)
                                 /\ f[q].kind = "file"
                                 /\ HasRecognisedExt(NameOf(q))}}

(***************************************************************************)
(* C1: after a run that ends with status 0, the Working Directory holds    *)
(* exactly .git and the Keep Path subtree at its original relative         *)
(* position: every entry of it lies in .git, on the keep path or below     *)
(* it, and the subtree is the one that was there before the isolation      *)
(* (plus the manifest).                                                    *)
(***************************************************************************)
C1_OnlyMarkerAndKeepPath ==
    status = 0 =>
        LET wd   == Phys(fs, target_dir)
            kp   == wd \o Components(keep_path)
            here == Sub(fs, kp)
        IN  /\ wd \o <<DotGit>> \in DOMAIN fs
            /\ IsDirAt(fs, kp)
            /\ \A p \in DOMAIN fs :
                  StrictlyInside(p, wd) =>
                      \/ Under(p, wd \o <<DotGit>>)
                      \/ Under(p, kp)
                      \/ Under(kp, p)
            /\ DOMAIN here \ {<<VersionJson>>} = DOMAIN keep0 \ {<<VersionJson>>}

(***************************************************************************)
(* C2: given three arguments, a raw reference whose scheme is not          *)
(* http/https or whose authority is empty ends the run with status 2, and  *)
(* nothing is cloned, moved, deleted or written.                           *)
(***************************************************************************)
C2_RejectableRawEndsWith2 ==
    (Len(argv) = 4 /\ RawRejectable(argv[2])) =>
        /\ pc \in {"args", "validate", "exit"}
        /\ pc = "exit" => status = 2
        /\ fs = fs0
        /\ ops = <<>>

(***************************************************************************)
(* C3: every failure of a pipeline step ends the process with an "Error:"  *)
(* diagnostic and the exit status reserved for that step.                  *)
(***************************************************************************)
C3_FailureHasReservedStatus ==
    failed_step # "none" =>
        /\ pc = "exit"
        /\ diag
        /\ status \in ReservedFor(failed_step)

(***************************************************************************)
(* C4: an entry at the Working Directory path that has no .git ends the    *)
(* run with status 3, with no clone invoked and the file system untouched; *)
(* a clone is invoked only when nothing is at that path; an existing       *)
(* checkout is used as it is, without a clone.                             *)
(***************************************************************************)
C4_ExistingEntryNeverCloned ==
    Admitted =>
        LET there  == Exists(fs0, target_dir)
            marker == Exists(fs0, target_dir \o <<DotGit>>)
        IN  /\ (there /\ ~marker) =>
                  /\ pc \in {"args", "validate", "acquire", "exit"}
                  /\ pc = "exit" => (status = 3 /\ diag)
                  /\ fs = fs0
                  /\ ~InOps("clone")
            /\ InOps("clone") => ~there
            /\ (there /\ marker) => (~InOps("clone") /\ fs_acq = fs0)

C4_Witness ==
    /\ Admitted
    /\ status = 3
    /\ Exists(fs0, target_dir)
    /\ IsDir(fs0, target_dir)
    /\ ~Exists(fs0, target_dir \o <<DotGit>>)

(***************************************************************************)
(* C5: when, after acquisition, the keep-path is missing under the Working *)
(* Directory or is no directory, the run ends with status 5 and the file   *)
(* system is the one the acquisition left: nothing moved, deleted or       *)
(* created, no temporary holder, manifest or archive.                      *)
(***************************************************************************)
C5_MissingKeepPathChangesNothing ==
    (Admitted /\ Acquired
        /\ (~Exists(fs_acq, keep_full) \/ ~IsDir(fs_acq, keep_full))) =>
        /\ pc \in {"resolve", "exit"}
        /\ pc = "exit" => (status = 5 /\ diag)
        /\ fs = fs_acq
        /\ \A i \in 1..Len(ops) : ops[i] = "clone"
        /\ \A p \in DOMAIN fs0 : p \in DOMAIN fs /\ fs[p] = fs0[p]

C5_Witness ==
    /\ status = 5
    /\ InOps("clone")
    /\ Exists(fs, keep_full)
    /\ ~IsDir(fs, keep_full)

(***************************************************************************)
(* C6: a keep-path that the run accepts (no exit with status 5) resolves   *)
(* to a directory strictly inside the Working Directory, so that the move, *)
(* the deletions, the manifest and the archive work on such a directory.   *)
(***************************************************************************)
C6_AcceptedKeepPathInside ==
    (Admitted /\ KeepAccepted) =>
        /\ IsDir(fs_acq, keep_full)
        /\ StrictlyInside(Phys(fs_acq, keep_full), Phys(fs_acq, target_dir))

C8_NormalizeIdempotent ==
    LET u == argv[2]
    IN  /\ pc \in {"norm1", "norm2"} =>
              /\ EndsWith(url1, DotGit)
              /\ Len(url1) = Len(Strip(u)) + (IF EndsWith(Strip(u), DotGit) THEN 0 ELSE Len(DotGit))
              /\ (EndsWith(u, DotGit) /\ Strip(u) = u) => url1 = u
        /\ pc = "norm2" => url2 = url1

C8_Witness ==
    /\ pc = "norm2"
    /\ argv[2] # <<>>
    /\ argv[2][1] = " "
    /\ EndsWith(argv[2], DotGit)
    /\ url1 # argv[2]

(***************************************************************************)
(* C9: once the restore has succeeded, the directory at the Keep Path      *)
(* holds exactly what the Keep Path subtree held before the isolation,     *)
(* whatever the initial layout (nested keep-paths, siblings whose deletion *)
(* failed, an entry that already carries the temporary holder's name).     *)
(***************************************************************************)
C9_RestoredSubtreeUnchanged ==
    pc = "walk" => Sub(fs, Phys(fs, final_keep)) = keep0

====
